---- MODULE Spec2Model ----
(***************************************************************************)
(* Model of the healthsearch note store: storage.Storage (the in-memory    *)
(* list _items, its lock and the JSON file behind it) driven by concurrent *)
(* callers of add_note, search and count (Spec, FairSpec, HistSpec), and   *)
(* the HTTP handlers of main.py with auth.require_token and the fallback   *)
(* embedder of embedding.get_embedding in front of it (ApiSpec).           *)
(***************************************************************************)
EXTENDS Integers, Sequences, FiniteSets, TLC

\* ------------------------------------------------------------------ bounds
\* number of add_note calls made in one behaviour
MaxAdds == 2
\* largest top_k a caller passes to search
MaxTopK == 2

\* the request threads sharing the one Storage instance
Threads == {"t1", "t2"}

\* ------------------------------------------------------------------ values
\* Embeddings passed by callers have one length, the dimension of the running
\* embedder (scaled down to 2), and integer Euclidean norms.

\* the length of the embeddings of the running embedder, scaled down
Dim == 2

\* the query embeddings callers pass to search
Queries == { <<3, 4>>, <<0, 0>> }

\* the (patient_id, note, embedding) triples callers pass to add_note
AddInputs ==
    { <<"P1", "hello", <<1, 0>>>>,
      <<"P2", "chest pain", <<3, 4>>>> }

\* float(x) for x in embedding.tolist(): the values are kept as they are
emb_list(embedding) == [i \in 1..Len(embedding) |-> embedding[i]]

\* NoteRecord(id, patient_id, note, embedding, score)
NoteRecord(id, patient_id, note, embedding, score) ==
    [id |-> id, patient_id |-> patient_id, note |-> note,
     embedding |-> embedding, score |-> score]

\* _save writing the note under "patient_id" and the patient under "note"
JsonOfRecord_swapped(r) ==
    [id |-> r.id, patient_id |-> r.note, note |-> r.patient_id,
     embedding |-> r.embedding]

\* the object _save writes for one record: the score field is not written
JsonOfRecord(r) ==
    [id |-> r.id, patient_id |-> r.patient_id, note |-> r.note,
     embedding |-> r.embedding]

\* the list json.dump writes for the whole collection
JsonOfItems(its) == [i \in 1..Len(its) |-> JsonOfRecord(its[i])]

\* ------------------------------------------------------- the backing file
\* the fields _load reads from every object of the file
RequiredFields == {"id", "patient_id", "note", "embedding"}

\* objects found in a backing file written by an earlier process: a
\* well-formed record, one whose embedding has another length (written
\* under another embedding model), and one that lacks the "embedding" field
GoodObject == [id |-> 101, patient_id |-> "P1", note |-> "headache", embedding |-> <<0, 0>>]
OtherLengthObject == [id |-> 103, patient_id |-> "P1", note |-> "hello", embedding |-> <<1>>]
PartialObject == [id |-> 104, patient_id |-> "P2", note |-> "hello"]

\* what the path can hold: no file, a file that does not parse, or a JSON list
MissingFile == [kind |-> "missing", data |-> <<>>]
CorruptFile == [kind |-> "corrupt", data |-> <<>>]
JsonFile(data) == [kind |-> "json", data |-> data]

\* the backing files a store is constructed on
InitialFiles ==
    { MissingFile, CorruptFile, JsonFile(<<>>), JsonFile(<<GoodObject>>),
      JsonFile(<<OtherLengthObject>>), JsonFile(<<GoodObject, PartialObject>>) }

\* _load keeping the records appended before the exception
Storage_load_prefix(f) ==
    IF f.kind # "json" THEN <<>>
    ELSE LET ok(i) == RequiredFields \subseteq DOMAIN f.data[i]
             n == CHOOSE k \in 0..Len(f.data) :
                      /\ \A i \in 1..k : ok(i)
                      /\ k < Len(f.data) => ~ok(k + 1)
         IN  [i \in 1..n |->
                NoteRecord(f.data[i].id, f.data[i].patient_id, f.data[i].note,
                           f.data[i].embedding, 0)]

\* Storage._load: every object must have the four fields, else the
\* exception handler resets the collection to empty
Storage_load(f) ==
    IF f.kind # "json" THEN <<>>
    ELSE IF \E i \in 1..Len(f.data) : ~(RequiredFields \subseteq DOMAIN f.data[i]) THEN <<>>
    ELSE [i \in 1..Len(f.data) |->
            NoteRecord(f.data[i].id, f.data[i].patient_id, f.data[i].note,
                       f.data[i].embedding, 0)]

\* ------------------------------------------------------------------- state
VARIABLES
    items,      \* Storage._items
    file,       \* the content of Storage.path
    lock,       \* Storage._lock: the thread holding it, or "free"
    nextId,     \* the number of uuid4 values handed out so far
    pc,         \* where each thread is
    arg,        \* the arguments of the call a thread is in
    rec,        \* add_note's local rec
    ret,        \* the outcome of a thread's last call
    before,     \* what the caller of add_note saw when it made the call
    hist,       \* how many records were loaded, how many adds started and returned
    resp        \* the response to the last HTTP request

vars == <<items, file, lock, nextId, pc, arg, rec, ret, before, hist, resp>>

NoArg == [patient_id |-> "", note |-> "", embedding |-> <<>>, top_k |-> 0]
NoRec == NoteRecord(0, "", "", <<>>, 0)
NoRet == [kind |-> "none", note |-> NoRec, list |-> <<>>, n |-> 0, exc |-> ""]

\* the caller's notes on an add_note call: count() just before the call, the
\* arguments passed, and whether no other add_note has appended since
NoBefore == [count |-> 0, patient_id |-> "", note |-> "", alone |-> FALSE]

\* no request has been answered yet
NoReq == [endpoint |-> "", authorization |-> [present |-> FALSE, value |-> <<>>],
          patient_id |-> "", text |-> <<>>]
NoResp == [req |-> NoReq, status |-> 0, body |-> <<>>, called |-> {}]

Init ==
    /\ file \in InitialFiles
    /\ items = Storage_load(file)
    /\ lock = "free"
    /\ nextId = 0
    /\ pc = [t \in Threads |-> "idle"]
    /\ arg = [t \in Threads |-> NoArg]
    /\ rec = [t \in Threads |-> NoRec]
    /\ ret = [t \in Threads |-> NoRet]
    /\ before = [t \in Threads |-> NoBefore]
    /\ hist = [loaded |-> Len(items), started |-> 0, returned |-> 0]
    /\ resp = NoResp

\* a thread that is not inside a call
AtRest(t) == pc[t] \in {"idle", "returned", "raised"}

\* the call ends: its locals are gone, the caller holds the outcome
Leave(t, where, outcome) ==
    /\ pc' = [pc EXCEPT ![t] = where]
    /\ ret' = [ret EXCEPT ![t] = outcome]
    /\ arg' = [arg EXCEPT ![t] = NoArg]
    /\ rec' = [rec EXCEPT ![t] = NoRec]

\* -------------------------------------------------------------- add_note
\* the caller enters add_note(patient_id, note, embedding)
CallAdd(t) ==
    /\ AtRest(t)
    /\ nextId + Cardinality({u \in Threads : pc[u] = "add_wait"}) < MaxAdds
    /\ \E a \in AddInputs :
         arg' = [arg EXCEPT ![t] =
                    [patient_id |-> a[1], note |-> a[2], embedding |-> a[3], top_k |-> 0]]
    /\ pc' = [pc EXCEPT ![t] = "add_wait"]
    /\ ret' = [ret EXCEPT ![t] = NoRet]
    /\ before' = [before EXCEPT ![t] =
                     [count |-> Len(items), patient_id |-> arg'[t].patient_id,
                      note |-> arg'[t].note, alone |-> TRUE]]
    /\ UNCHANGED <<items, file, lock, nextId, rec>>

\* add_note entering its body without waiting for the lock
AddAppend_nolock(t) ==
    /\ pc[t] = "add_wait"
    /\ lock' = t
    /\ LET r == NoteRecord(nextId + 1, arg[t].patient_id, arg[t].note,
                           emb_list(arg[t].embedding), 0)
       IN  /\ rec' = [rec EXCEPT ![t] = r]
           /\ items' = Append(items, r)
    /\ nextId' = nextId + 1
    /\ pc' = [pc EXCEPT ![t] = "add_appended"]
    /\ before' = [u \in Threads |->
                     IF u = t THEN before[u] ELSE [before[u] EXCEPT !.alone = FALSE]]
    /\ UNCHANGED <<file, arg, ret>>

\* add_note appending its record twice
AddAppend_twice(t) ==
    /\ pc[t] = "add_wait"
    /\ lock = "free"
    /\ lock' = t
    /\ LET r == NoteRecord(nextId + 1, arg[t].patient_id, arg[t].note,
                           emb_list(arg[t].embedding), 0)
       IN  /\ rec' = [rec EXCEPT ![t] = r]
           /\ items' = Append(Append(items, r), r)
    /\ nextId' = nextId + 1
    /\ pc' = [pc EXCEPT ![t] = "add_appended"]
    /\ before' = [u \in Threads |->
                     IF u = t THEN before[u] ELSE [before[u] EXCEPT !.alone = FALSE]]
    /\ UNCHANGED <<file, arg, ret>>

\* with self._lock: rec_id = str(uuid.uuid4()) ... self._items.append(rec)
AddAppend(t) ==
    /\ pc[t] = "add_wait"
    /\ lock = "free"
    /\ lock' = t
    /\ LET r == NoteRecord(nextId + 1, arg[t].patient_id, arg[t].note,
                           emb_list(arg[t].embedding), 0)
       IN  /\ rec' = [rec EXCEPT ![t] = r]
           /\ items' = Append(items, r)
    /\ nextId' = nextId + 1
    /\ pc' = [pc EXCEPT ![t] = "add_appended"]
    /\ before' = [u \in Threads |->
                     IF u = t THEN before[u] ELSE [before[u] EXCEPT !.alone = FALSE]]
    /\ UNCHANGED <<file, arg, ret>>

\* _save: open(self.path, "w") succeeds and truncates the file
SaveOpen(t) ==
    /\ pc[t] = "add_appended"
    /\ file' = CorruptFile
    /\ pc' = [pc EXCEPT ![t] = "add_opened"]
    /\ UNCHANGED <<items, lock, nextId, arg, rec, ret, before>>

\* an exception leaving the call with the lock still held
Raise_keepslock(t, exc) ==
    /\ lock' = lock
    /\ Leave(t, "raised", [NoRet EXCEPT !.kind = "error", !.exc = exc])
    /\ before' = [before EXCEPT ![t] = NoBefore]

\* an exception leaves the with block: the lock is released, the caller
\* gets the exception
Raise(t, exc) ==
    /\ lock' = "free"
    /\ Leave(t, "raised", [NoRet EXCEPT !.kind = "error", !.exc = exc])
    /\ before' = [before EXCEPT ![t] = NoBefore]

\* _save: open(self.path, "w") raises, the file is as it was
SaveOpenFails(t) ==
    /\ pc[t] = "add_appended"
    /\ Raise(t, "OSError")
    /\ UNCHANGED <<items, file, nextId>>

\* _save writing the collection as it was before the append
SaveDump_stale(t) ==
    /\ pc[t] = "add_opened"
    /\ file' = JsonFile(JsonOfItems(SubSeq(items, 1, Len(items) - 1)))
    /\ pc' = [pc EXCEPT ![t] = "add_saved"]
    /\ UNCHANGED <<items, lock, nextId, arg, rec, ret, before>>

\* _save: json.dump writes the whole list and the file is closed
SaveDump(t) ==
    /\ pc[t] = "add_opened"
    /\ file' = JsonFile(JsonOfItems(items))
    /\ pc' = [pc EXCEPT ![t] = "add_saved"]
    /\ UNCHANGED <<items, lock, nextId, arg, rec, ret, before>>

\* the exception of json.dump caught and dropped: add_note returns rec
SaveDumpFails_swallowed(t) ==
    /\ pc[t] = "add_opened"
    /\ lock' = "free"
    /\ Leave(t, "returned", [NoRet EXCEPT !.kind = "note", !.note = rec[t]])
    /\ UNCHANGED <<items, file, nextId, before>>

\* _save: json.dump (or the flush at close) raises, the file is left partial
SaveDumpFails(t) ==
    /\ pc[t] = "add_opened"
    /\ Raise(t, "OSError")
    /\ UNCHANGED <<items, file, nextId>>

\* return rec, leaving the with block
AddReturn(t) ==
    /\ pc[t] = "add_saved"
    /\ lock' = "free"
    /\ Leave(t, "returned", [NoRet EXCEPT !.kind = "note", !.note = rec[t]])
    /\ UNCHANGED <<items, file, nextId, before>>

\* ---------------------------------------------------------------- search
RECURSIVE Dot(_, _)
\* the dot product of two vectors of one length
Dot(a, b) == IF Len(a) = 0 THEN 0 ELSE a[1] * b[1] + Dot(Tail(a), Tail(b))

\* np.linalg.norm: the vectors of the model have integer norms
Norm(a) == CHOOSE n \in 0..Dot(a, a) : n * n <= Dot(a, a) /\ (n + 1) * (n + 1) > Dot(a, a)

\* scores are kept as multiples of 1/ScoreUnit: with norms 0, 1 and 5 every
\* quotient dots / denom is such a multiple
ScoreUnit == 5 * 5

\* mat.dot(q) and np.array(...) need one row length, equal to len(q)
ShapesAgree(its, q) == \A i \in 1..Len(its) : Len(its[i].embedding) = Len(q)

\* sim = dots / np.where(denom == 0, 1.0, denom)
Similarity(its, q) ==
    LET q_norm == Norm(q)
        denom(i) == Norm(its[i].embedding) * (IF q_norm # 0 THEN q_norm ELSE 1)
    IN  [i \in 1..Len(its) |->
            (Dot(its[i].embedding, q) * ScoreUnit)
                \div (IF denom(i) = 0 THEN 1 ELSE denom(i))]

\* np.argsort(sim): the minus sign forgotten
ArgSorts_ascending(s) ==
    { p \in Permutations(1..Len(s)) :
        \A i, j \in 1..Len(s) : i < j => s[p[i]] <= s[p[j]] }

\* np.argsort(-sim): an index order with -sim ascending; the default sort
\* is not stable, so equal scores come in any order
ArgSorts(s) ==
    { p \in Permutations(1..Len(s)) :
        \A i, j \in 1..Len(s) : i < j => s[p[i]] >= s[p[j]] }

\* idx[:top_k] and the result list built from it
SearchResults(its, s, idx, top_k) ==
    LET n == IF top_k < Len(s) THEN top_k ELSE Len(s)
    IN  [j \in 1..n |->
            NoteRecord(its[idx[j]].id, its[idx[j]].patient_id, its[idx[j]].note,
                       its[idx[j]].embedding, s[idx[j]])]

\* the caller enters search(query_embedding, top_k)
CallSearch(t) ==
    /\ AtRest(t)
    /\ \E q \in Queries, k \in 1..MaxTopK :
         arg' = [arg EXCEPT ![t] =
                    [patient_id |-> "", note |-> "", embedding |-> q, top_k |-> k]]
    /\ pc' = [pc EXCEPT ![t] = "search_wait"]
    /\ ret' = [ret EXCEPT ![t] = NoRet]
    /\ before' = [before EXCEPT ![t] = NoBefore]
    /\ UNCHANGED <<items, file, lock, nextId, rec>>

\* with self._lock: if not self._items: return []
SearchEmpty(t) ==
    /\ pc[t] = "search_wait"
    /\ lock = "free"
    /\ items = <<>>
    /\ Leave(t, "returned", [NoRet EXCEPT !.kind = "list"])
    /\ UNCHANGED <<items, file, lock, nextId, before>>

\* search reading the collection without taking the lock
SearchEnter_nolock(t) ==
    /\ pc[t] = "search_wait"
    /\ items # <<>>
    /\ pc' = [pc EXCEPT ![t] = "search_locked"]
    /\ UNCHANGED <<items, file, lock, nextId, arg, rec, ret, before>>

\* search without the early return for an empty collection
SearchEnter_nocheck(t) ==
    /\ pc[t] = "search_wait"
    /\ lock = "free"
    /\ lock' = t
    /\ pc' = [pc EXCEPT ![t] = "search_locked"]
    /\ UNCHANGED <<items, file, nextId, arg, rec, ret, before>>

\* with self._lock: the collection is not empty
SearchEnter(t) ==
    /\ pc[t] = "search_wait"
    /\ lock = "free"
    /\ items # <<>>
    /\ lock' = t
    /\ pc' = [pc EXCEPT ![t] = "search_locked"]
    /\ UNCHANGED <<items, file, nextId, arg, rec, ret, before>>

\* search sorting self._items in place, best score first
SearchRank_inplace(t) ==
    /\ pc[t] = "search_locked"
    /\ ShapesAgree(items, arg[t].embedding)
    /\ \E idx \in ArgSorts(Similarity(items, arg[t].embedding)) :
         /\ Leave(t, "returned",
                  [NoRet EXCEPT !.kind = "list",
                                !.list = SearchResults(items, Similarity(items, arg[t].embedding),
                                                       idx, arg[t].top_k)])
         /\ items' = [j \in 1..Len(items) |-> items[idx[j]]]
    /\ lock' = "free"
    /\ UNCHANGED <<file, nextId, before>>

\* mat ... sim ... idx ... return results
SearchRank(t) ==
    /\ pc[t] = "search_locked"
    /\ ShapesAgree(items, arg[t].embedding)
    /\ \E idx \in ArgSorts(Similarity(items, arg[t].embedding)) :
         Leave(t, "returned",
               [NoRet EXCEPT !.kind = "list",
                             !.list = SearchResults(items, Similarity(items, arg[t].embedding),
                                                    idx, arg[t].top_k)])
    /\ lock' = "free"
    /\ UNCHANGED <<items, file, nextId, before>>

\* np.array(...) or mat.dot(q) raises ValueError: a stored embedding has
\* another length than the query
SearchShapeError(t) ==
    /\ pc[t] = "search_locked"
    /\ ~ShapesAgree(items, arg[t].embedding)
    /\ Raise(t, "ValueError")
    /\ UNCHANGED <<items, file, nextId>>

\* ----------------------------------------------------------------- count
\* return len(self._items), no lock taken
Count_backing(t) ==
    /\ AtRest(t)
    /\ Leave(t, "returned", [NoRet EXCEPT !.kind = "count", !.n = Len(Storage_load(file))])
    /\ before' = [before EXCEPT ![t] = NoBefore]
    /\ UNCHANGED <<items, file, lock, nextId>>

Count(t) ==
    /\ AtRest(t)
    /\ Leave(t, "returned", [NoRet EXCEPT !.kind = "count", !.n = Len(items)])
    /\ before' = [before EXCEPT ![t] = NoBefore]
    /\ UNCHANGED <<items, file, lock, nextId>>

Next ==
    \E t \in Threads :
        \/ CallAdd(t) /\ UNCHANGED <<hist, resp>>
        \/ AddAppend(t) /\ UNCHANGED <<hist, resp>>
        \/ SaveOpen(t) /\ UNCHANGED <<hist, resp>>
        \/ SaveOpenFails(t) /\ UNCHANGED <<hist, resp>>
        \/ SaveDump(t) /\ UNCHANGED <<hist, resp>>
        \/ SaveDumpFails(t) /\ UNCHANGED <<hist, resp>>
        \/ AddReturn(t) /\ UNCHANGED <<hist, resp>>
        \/ CallSearch(t) /\ UNCHANGED <<hist, resp>>
        \/ SearchEmpty(t) /\ UNCHANGED <<hist, resp>>
        \/ SearchEnter(t) /\ UNCHANGED <<hist, resp>>
        \/ SearchRank(t) /\ UNCHANGED <<hist, resp>>
        \/ SearchShapeError(t) /\ UNCHANGED <<hist, resp>>
        \/ Count(t) /\ UNCHANGED <<hist, resp>>

Spec == Init /\ [][Next]_vars

\* the step in which a call takes the lock
Acquire(t) ==
    /\ AddAppend(t) \/ SearchEmpty(t) \/ SearchEnter(t)
    /\ UNCHANGED <<hist, resp>>

\* the steps of a call that holds the lock
Proceed(t) ==
    /\ \/ SaveOpen(t) \/ SaveOpenFails(t) \/ SaveDump(t) \/ SaveDumpFails(t) \/ AddReturn(t)
       \/ SearchRank(t) \/ SearchShapeError(t)
    /\ UNCHANGED <<hist, resp>>

\* every started call is scheduled fairly: a call that holds the lock goes
\* on, and a call that finds the lock free again and again gets it
FairSpec ==
    Spec /\ \A t \in Threads : SF_vars(Acquire(t)) /\ WF_vars(Proceed(t))

\* the same steps, with the calls of add_note counted as they start and as
\* they return
HistNext ==
    \E t \in Threads :
        \/ CallAdd(t) /\ hist' = [hist EXCEPT !.started = @ + 1] /\ UNCHANGED resp
        \/ AddAppend(t) /\ UNCHANGED <<hist, resp>>
        \/ SaveOpen(t) /\ UNCHANGED <<hist, resp>>
        \/ SaveOpenFails(t) /\ UNCHANGED <<hist, resp>>
        \/ SaveDump(t) /\ UNCHANGED <<hist, resp>>
        \/ SaveDumpFails(t) /\ UNCHANGED <<hist, resp>>
        \/ AddReturn(t) /\ hist' = [hist EXCEPT !.returned = @ + 1] /\ UNCHANGED resp
        \/ CallSearch(t) /\ UNCHANGED <<hist, resp>>
        \/ SearchEmpty(t) /\ UNCHANGED <<hist, resp>>
        \/ SearchEnter(t) /\ UNCHANGED <<hist, resp>>
        \/ SearchRank(t) /\ UNCHANGED <<hist, resp>>
        \/ SearchShapeError(t) /\ UNCHANGED <<hist, resp>>
        \/ Count(t) /\ UNCHANGED <<hist, resp>>

HistSpec == Init /\ [][HistNext]_vars

\* ============================================================ embedding.py
\* Texts are sequences of characters.  A float of an embedding is kept
\* exactly, as the pair [n, d2] that stands for n / sqrt(d2).

\* EMBEDDING_DIM of the fallback embedder
EMBEDDING_DIM == 384

Alphabet ==
    <<"a", "b", "c", "d", "e", "f", "g", "h", "i", "j", "k", "l", "m",
      "n", "o", "p", "q", "r", "s", "t", "u", "v", "w", "x", "y", "z">>

\* ord(ch) for a space and for the lower-case letters
Ord(ch) == IF ch = " " THEN 32 ELSE 96 + (CHOOSE k \in 1..26 : Alphabet[k] = ch)

RECURSIVE lstrip(_)
lstrip(text) ==
    IF text # <<>> /\ Head(text) = " " THEN lstrip(Tail(text)) ELSE text

RECURSIVE rstrip(_)
rstrip(text) ==
    IF text # <<>> /\ text[Len(text)] = " "
    THEN rstrip(SubSeq(text, 1, Len(text) - 1))
    ELSE text

\* str.strip()
strip(text) == rstrip(lstrip(text))

\* the loop adding every character into arr[0]
RECURSIVE Bucket_onebucket(_, _, _)
Bucket_onebucket(text, idx, i) ==
    IF i = 0 THEN 0
    ELSE Bucket_onebucket(text, idx, i - 1)
         + (IF 0 = idx THEN (Ord(text[i]) % 97) + 1 ELSE 0)

\* what the loop has added into arr[idx] after the first i characters
RECURSIVE Bucket(_, _, _)
Bucket(text, idx, i) ==
    IF i = 0 THEN 0
    ELSE Bucket(text, idx, i - 1)
         + (IF (i - 1) % EMBEDDING_DIM = idx THEN (Ord(text[i]) % 97) + 1 ELSE 0)

\* the sum of a[k] * b[k] for k in lo..hi
RECURSIVE SumProd(_, _, _, _)
SumProd(a, b, lo, hi) ==
    IF lo > hi THEN 0
    ELSE IF lo = hi THEN a[lo] * b[lo]
    ELSE LET mid == (lo + hi) \div 2
         IN  SumProd(a, b, lo, mid) + SumProd(a, b, mid + 1, hi)

\* get_embedding returns None
None == <<>>

\* get_embedding with text.strip() left out
get_embedding_nostrip(text) ==
    IF text = <<>> THEN None
    ELSE LET arr == [k \in 1..EMBEDDING_DIM |-> Bucket(text, k - 1, Len(text))]
             norm2 == SumProd(arr, arr, 1, EMBEDDING_DIM)
         IN  [k \in 1..EMBEDDING_DIM |->
                 [n |-> arr[k], d2 |-> IF norm2 = 0 THEN 1 ELSE norm2]]

\* get_embedding(text) of the fallback embedder: arr, or arr / norm
get_embedding(text) ==
    IF strip(text) = <<>> THEN None
    ELSE LET arr == [k \in 1..EMBEDDING_DIM |->
                        Bucket(strip(text), k - 1, Len(strip(text)))]
             norm2 == SumProd(arr, arr, 1, EMBEDDING_DIM)
         IN  [k \in 1..EMBEDDING_DIM |->
                 [n |-> arr[k], d2 |-> IF norm2 = 0 THEN 1 ELSE norm2]]

\* ================================================================= auth.py
\* A header value is a sequence of pieces: a single space " ", or a word (a
\* run of characters other than space).

STATIC_TOKEN == "super-secret-token"

NoHeader == [present |-> FALSE, value |-> <<>>]
HeaderOf(value) == [present |-> TRUE, value |-> value]

\* authorization.startswith("Bearer ")
StartsWithBearer(authorization) ==
    Len(authorization) >= 2 /\ authorization[1] = "Bearer" /\ authorization[2] = " "

\* authorization.split(" ", 1)[1]
AfterFirstSpace(authorization) ==
    LET k == CHOOSE i \in 1..Len(authorization) :
                 authorization[i] = " " /\ \A j \in 1..(i - 1) : authorization[j] # " "
    IN  SubSeq(authorization, k + 1, Len(authorization))

\* require_token: the status of the HTTPException it raises, 0 if it returns
require_token(authorization) ==
    IF authorization = <<>> THEN 401
    ELSE IF ~StartsWithBearer(authorization) THEN 401
    ELSE IF strip(AfterFirstSpace(authorization)) # <<STATIC_TOKEN>> THEN 401
    ELSE 0

\* ================================================================= main.py
\* The handlers add_note and search_notes are coroutines without an await
\* in their bodies: the event loop runs them one after the other, so each
\* request is one step.

\* number of notes the requests of one behaviour append to the store
MaxNotes == 3

\* storage.search(q_emb, top_k=3)
TopK == 3

ChestPain == <<"c", "h", "e", "s", "t", " ", "p", "a", "i", "n">>
Headache == <<"h", "e", "a", "d", "a", "c", "h", "e">>
ChestTightness ==
    <<"c", "h", "e", "s", "t", " ", "t", "i", "g", "h", "t", "n", "e", "s", "s">>
Chest == <<"c", "h", "e", "s", "t">>
Blank == <<" ", " ">>

\* the Authorization header the service accepts
GoodHeader == HeaderOf(<<"Bearer", " ", STATIC_TOKEN>>)

\* the Authorization headers requests come with
Headers ==
    { NoHeader,
      HeaderOf(<<>>),
      HeaderOf(<<"Basic", " ", STATIC_TOKEN>>),
      HeaderOf(<<"Bearer", " ", "wrong-token">>),
      HeaderOf(<<"Bearer", " ", " ", STATIC_TOKEN, " ">>),
      GoodHeader }

\* the note texts and the query texts requests come with
Notes == {ChestPain, Headache, ChestTightness, Blank, <<>>}
Qs == {Chest, Blank, <<>>}

\* what get_embedding returns for each of these texts
Embedding == [text \in Notes \cup Qs |-> get_embedding(text)]

\* POST /add_note with the JSON body {patient_id, note}: every body under
\* the good header, one good body under every header
AddNoteRequests ==
    { [endpoint |-> "add_note", authorization |-> x[1], patient_id |-> x[2], text |-> x[3]] :
        x \in ({GoodHeader} \X {"P1"} \X Notes) \cup ({GoodHeader} \X {""} \X {ChestPain})
               \cup (Headers \X {"P1"} \X {ChestPain}) }

\* GET /search_notes?q=...: every query under the good header, one good
\* query under every header
SearchRequests ==
    { [endpoint |-> "search_notes", authorization |-> x[1], patient_id |-> "", text |-> x[2]] :
        x \in ({GoodHeader} \X Qs) \cup (Headers \X {Chest}) }

\* clients send each note text once: it is not among the notes added since
\* the start
Fresh(req) == \A i \in (hist.loaded + 1)..Len(items) : items[i].note # req.text

\* the service starts without a file, or on a file written under an
\* embedder of another dimension
ApiInit == Init /\ file \in {MissingFile, JsonFile(<<GoodObject>>)}

\* Field(..., min_length=1) on patient_id and note, Query(..., min_length=1) on q
Valid(req) ==
    /\ Len(req.text) >= 1
    /\ req.endpoint = "add_note" => req.patient_id # ""

\* What happens before the handler's body runs: the status the request is
\* turned away with, or 0 if the body runs.  Header(...) makes the header
\* required (422 without it), Depends(require_token) runs before the body
\* and the query are validated.
Admission(req) ==
    IF ~req.authorization.present THEN 422
    ELSE IF require_token(req.authorization.value) # 0
         THEN require_token(req.authorization.value)
    ELSE IF ~Valid(req) THEN 422
    ELSE 0

\* the response goes out; the threads of the storage-level view are not used
Respond(req, status, body, called) ==
    /\ resp' = [req |-> req, status |-> status, body |-> body, called |-> called]
    /\ UNCHANGED <<lock, pc, arg, rec, ret, before, hist>>

\* either endpoint: the request is turned away before the handler's body
Rejected(req) ==
    /\ Admission(req) # 0
    /\ Respond(req, Admission(req), <<>>, {})
    /\ UNCHANGED <<items, file, nextId>>

\* add_note: get_embedding returned None, HTTPException(500)
AddNoteNoEmbedding(req) ==
    /\ Admission(req) = 0
    /\ Embedding[req.text] = None
    /\ Respond(req, 500, <<>>, {"encode"})
    /\ UNCHANGED <<items, file, nextId>>

\* add_note: storage.add_note appends and saves, the handler returns 201
AddNoteStored(req) ==
    /\ Admission(req) = 0
    /\ Embedding[req.text] # None
    /\ nextId < MaxNotes
    /\ Fresh(req)
    /\ LET r == NoteRecord(nextId + 1, req.patient_id, req.text,
                           emb_list(Embedding[req.text]), 0)
       IN  /\ items' = Append(items, r)
           /\ file' = JsonFile(JsonOfItems(Append(items, r)))
           /\ Respond(req, 201,
                      [id |-> r.id, patient_id |-> r.patient_id, note |-> r.note],
                      {"encode", "add"})
    /\ nextId' = nextId + 1

\* add_note: storage.add_note appends, _save raises at open (the file stays)
\* or at json.dump (the file is cut); the exception becomes a 500
AddNoteSaveFails(req) ==
    /\ Admission(req) = 0
    /\ Embedding[req.text] # None
    /\ nextId < MaxNotes
    /\ Fresh(req)
    /\ items' = Append(items, NoteRecord(nextId + 1, req.patient_id, req.text,
                                         emb_list(Embedding[req.text]), 0))
    /\ file' \in {file, CorruptFile}
    /\ nextId' = nextId + 1
    /\ Respond(req, 500, <<>>, {"encode", "add"})

\* search_notes: get_embedding returned None, HTTPException(500)
SearchNoEmbedding(req) ==
    /\ Admission(req) = 0
    /\ Embedding[req.text] = None
    /\ Respond(req, 500, <<>>, {"encode"})
    /\ UNCHANGED <<items, file, nextId>>

\* p / q < r / s for naturals p, r and positive q, s
RECURSIVE FracLess(_, _, _, _)
FracLess(p, q, r, s) ==
    IF p \div q # r \div s THEN p \div q < r \div s
    ELSE IF r % s = 0 THEN FALSE
    ELSE IF p % q = 0 THEN TRUE
    ELSE FracLess(s, r % s, q, p % q)

\* dots / denom for one row and the query, as num / sqrt(den2); the floats
\* of one vector share their d2, which cancels
Cosine(e, q) ==
    LET a == [k \in 1..Len(e) |-> e[k].n]
        b == [k \in 1..Len(q) |-> q[k].n]
        aa == SumProd(a, a, 1, Len(a))
        bb == SumProd(b, b, 1, Len(b))
    IN  [num |-> SumProd(a, b, 1, Len(a)),
         den2 |-> (IF aa = 0 THEN 1 ELSE aa) * (IF bb = 0 THEN 1 ELSE bb)]

\* x < y for two such scores
ScoreLess(x, y) ==
    IF x.num < 0 /\ y.num >= 0 THEN TRUE
    ELSE IF x.num >= 0 /\ y.num < 0 THEN FALSE
    ELSE IF x.num >= 0 THEN FracLess(x.num * x.num, x.den2, y.num * y.num, y.den2)
    ELSE FracLess(y.num * y.num, y.den2, x.num * x.num, x.den2)

\* sim of storage.search for embeddings made by get_embedding
Cosines(its, q) == [i \in 1..Len(its) |-> Cosine(its[i].embedding, q)]

\* the place of each score among the scores of the call: argsort orders
\* the scores as it orders these
Ranks(s) ==
    [i \in 1..Len(s) |-> Cardinality({ j \in 1..Len(s) : ScoreLess(s[j], s[i]) })]

\* [SearchResult(patient_id, note, score) for r in results]
SearchBody(results) ==
    [j \in 1..Len(results) |->
        [patient_id |-> results[j].patient_id, note |-> results[j].note,
         score |-> results[j].score]]

\* search_notes: storage.search returns, the handler answers 200
SearchAnswered(req) ==
    /\ Admission(req) = 0
    /\ Embedding[req.text] # None
    /\ \/ /\ items = <<>>
          /\ Respond(req, 200, <<>>, {"encode", "search"})
       \/ /\ items # <<>>
          /\ ShapesAgree(items, Embedding[req.text])
          /\ LET sim == Cosines(items, Embedding[req.text])
             IN  \E idx \in ArgSorts(Ranks(sim)) :
                     Respond(req, 200, SearchBody(SearchResults(items, sim, idx, TopK)),
                             {"encode", "search"})
    /\ UNCHANGED <<items, file, nextId>>

\* search_notes: storage.search raises ValueError, the exception becomes a 500
SearchFails(req) ==
    /\ Admission(req) = 0
    /\ Embedding[req.text] # None
    /\ items # <<>>
    /\ ~ShapesAgree(items, Embedding[req.text])
    /\ Respond(req, 500, <<>>, {"encode", "search"})
    /\ UNCHANGED <<items, file, nextId>>

\* GET /health: no token asked for
Health ==
    /\ Respond([NoReq EXCEPT !.endpoint = "health"], 200,
               [status |-> "ok", stored |-> Len(items)], {"count"})
    /\ UNCHANGED <<items, file, nextId>>

ApiNext ==
    \/ \E req \in AddNoteRequests \cup SearchRequests : Rejected(req)
    \/ \E req \in AddNoteRequests : AddNoteNoEmbedding(req)
    \/ \E req \in AddNoteRequests : AddNoteStored(req)
    \/ \E req \in AddNoteRequests : AddNoteSaveFails(req)
    \/ \E req \in SearchRequests : SearchNoEmbedding(req)
    \/ \E req \in SearchRequests : SearchAnswered(req)
    \/ \E req \in SearchRequests : SearchFails(req)
    \/ Health

ApiSpec == ApiInit /\ [][ApiNext]_vars

\* ================================================================ claims
\* a thread between add_note's append and the end of its _save
Rewriting(t) == pc[t] \in {"add_appended", "add_opened"}

\* a thread inside search
Searching(t) == pc[t] \in {"search_wait", "search_locked"}

Min(a, b) == IF a < b THEN a ELSE b

IsPrefix(a, b) == Len(a) <= Len(b) /\ \A i \in 1..Len(a) : a[i] = b[i]

\* C1: while one add_note call is between its append and the end of its
\* rewrite of the file, every step of another thread leaves the collection
\* and the file as they are.
C1_AddsDoNotInterleave ==
    [][\A t \in Threads :
          (Rewriting(t) /\ pc'[t] = pc[t]) => (items' = items /\ file' = file)]_vars

\* two add_note calls at once: one is rewriting the file, the other waits
C1_Witness ==
    \E t, u \in Threads : pc[t] = "add_opened" /\ pc[u] = "add_wait"

\* C2: when the write of add_note fails, the record that was appended is
\* no longer in the collection once the call has ended.
C2_FailedAddLeavesNoRecord ==
    [][\A t \in Threads :
          (Rewriting(t) /\ pc'[t] = "raised") =>
              \A i \in 1..Len(items') : items'[i].id # rec[t].id]_vars

\* C3: an add_note call whose write fails ends with the exception, never
\* with a Note: a call leaves the rewrite either for the saved state or
\* for the raised state.
C3_SaveFailurePropagates ==
    [][\A t \in Threads :
          (Rewriting(t) /\ pc'[t] # pc[t] /\ pc'[t] \notin {"add_opened", "add_saved"}) =>
              (pc'[t] = "raised" /\ ret'[t].kind = "error" /\ ret'[t].exc = "OSError")]_vars

\* an add_note call has ended with the exception of a failed write
C3_Witness ==
    \E t \in Threads :
        pc[t] = "raised" /\ ret[t].exc = "OSError" /\ file = CorruptFile /\ Len(items) >= 1

\* C4: every step in which a search reads the collection starts in a state
\* where no add_note call is between its append and the end of its rewrite.
C4_SearchSeesNoPartialAppend ==
    [][\A t \in Threads :
          (Searching(t) /\ pc'[t] # pc[t]) => \A u \in Threads : ~Rewriting(u)]_vars

\* a search holds the collection while an add_note call waits for it
C4_Witness ==
    \E t, u \in Threads : pc[t] = "search_locked" /\ pc[u] = "add_wait"

\* C5: in the step in which add_note returns a Note, the file holds the
\* JSON list of the whole collection, in order, the new record last.
C5_ReturnedAddIsPersisted ==
    [][\A t \in Threads :
          (pc[t] # pc'[t] /\ pc'[t] = "returned" /\ ret'[t].kind = "note") =>
              /\ file' = JsonFile(JsonOfItems(items'))
              /\ Len(items') >= 1
              /\ JsonOfRecord(ret'[t].note) = file'.data[Len(file'.data)]]_vars

\* an add_note call has returned on a store that already held a record
C5_Witness ==
    \E t \in Threads :
        /\ pc[t] = "returned" /\ ret[t].kind = "note"
        /\ Len(items) >= 2
        /\ file = JsonFile(JsonOfItems(items))

\* C6: after add_note has returned a Note, with no other add_note appending
\* since the call was made, count() is one more than it was before the call
\* and the Note carries the patient_id and note that were passed.
C6_AddIncrementsCount ==
    \A t \in Threads :
        (pc[t] = "returned" /\ ret[t].kind = "note" /\ before[t].alone) =>
            /\ Len(items) = before[t].count + 1
            /\ ret[t].note.patient_id = before[t].patient_id
            /\ ret[t].note.note = before[t].note

\* an add_note call has returned with no other add in between
C6_Witness ==
    \E t \in Threads :
        /\ pc[t] = "returned" /\ ret[t].kind = "note" /\ before[t].alone
        /\ before[t].count >= 1

\* a step of search or count
ReadOnlyStep(t) ==
    \/ Searching(t) /\ pc'[t] # pc[t]
    \/ pc'[t] = "search_wait" /\ pc[t] # "search_wait"
    \/ /\ AtRest(t) /\ pc'[t] = "returned" /\ ret'[t].kind = "count"
       /\ \A u \in Threads \ {t} : pc'[u] = pc[u]

\* C7: every step keeps the records of the collection where they are and
\* adds at most one record at the end; a step of search or count changes
\* neither the collection nor the file.
C7_NotesAreImmutable ==
    [][/\ IsPrefix(items, items')
       /\ Len(items') <= Len(items) + 1
       /\ \A t \in Threads : ReadOnlyStep(t) => (items' = items /\ file' = file)]_vars

\* a search has ranked a collection of several records
C7_Witness ==
    \E t \in Threads :
        ret[t].kind = "list" /\ Len(ret[t].list) >= 2 /\ Len(items) >= 2

\* C8: the list a search returns has at most min(top_k, count()) results,
\* each with a score at least that of the result after it.
C8_SearchBoundedAndSorted ==
    [][\A t \in Threads :
          (Searching(t) /\ pc'[t] = "returned") =>
              /\ Len(ret'[t].list) <= Min(arg[t].top_k, Len(items'))
              /\ \A j \in 1..(Len(ret'[t].list) - 1) :
                    ret'[t].list[j].score >= ret'[t].list[j + 1].score]_vars

\* a search has cut a longer ranking down to two results of different score
C8_Witness ==
    \E t \in Threads :
        /\ ret[t].kind = "list" /\ Len(ret[t].list) = 2 /\ Len(items) >= 3
        /\ ret[t].list[1].score > ret[t].list[2].score

\* the records of its at the positions in pos, as a sequence of results
\* with the scores s
Picks(its, s, pos) ==
    [j \in 1..Len(pos) |->
        NoteRecord(its[pos[j]].id, its[pos[j]].patient_id, its[pos[j]].note,
                   its[pos[j]].embedding, s[pos[j]])]

\* res holds n distinct records of its, none of the others scoring higher
IsTopOf(res, its, q, n) ==
    \E pos \in [1..n -> 1..Len(its)] :
        /\ \A i, j \in 1..n : i # j => pos[i] # pos[j]
        /\ res = Picks(its, Similarity(its, q), pos)
        /\ \A k \in 1..Len(its) :
              (\A j \in 1..n : pos[j] # k) =>
                  \A j \in 1..n : Similarity(its, q)[k] <= Similarity(its, q)[pos[j]]

\* C9: a search on a collection of n >= 1 records ends by returning
\* min(top_k, n) distinct stored records, and no record left out scores
\* higher than a returned one.
C9_SearchReturnsTopK ==
    [][\A t \in Threads :
          (Searching(t) /\ AtRest(t)' /\ Len(items) >= 1) =>
              /\ ret'[t].kind = "list"
              /\ IsTopOf(ret'[t].list, items, arg[t].embedding,
                         Min(arg[t].top_k, Len(items)))]_vars

\* C10: a search on an empty collection ends at once, returning the empty
\* list and no exception.
C10_EmptyStoreSearch ==
    [][\A t \in Threads :
          (Searching(t) /\ pc'[t] # pc[t] /\ items = <<>>) =>
              (pc'[t] = "returned" /\ ret'[t].kind = "list" /\ ret'[t].list = <<>>)]_vars

\* a search has returned the empty list from an empty collection
C10_Witness ==
    \E t \in Threads :
        pc[t] = "returned" /\ ret[t].kind = "list" /\ ret[t].list = <<>> /\ items = <<>>
\* C11: when _save has written a collection of N records, a store
\* constructed on that file loads the same N records, in the same order,
\* with the same id, patient_id, note and embedding.
C11_RoundTrip ==
    \A t \in Threads :
        pc[t] = "add_saved" =>
            /\ Len(Storage_load(file)) = Len(items)
            /\ \A i \in 1..Len(items) :
                  /\ Storage_load(file)[i].id = items[i].id
                  /\ Storage_load(file)[i].patient_id = items[i].patient_id
                  /\ Storage_load(file)[i].note = items[i].note
                  /\ Storage_load(file)[i].embedding = items[i].embedding

\* a collection of three records with different values has been written
C11_Witness ==
    \E t \in Threads :
        /\ pc[t] = "add_saved" /\ Len(items) = 3
        /\ items[2].patient_id # items[3].patient_id
        /\ Len(file.data) = 3

\* a file _load cannot read to the end: missing, unparsable, or holding an
\* object without one of the fields
Unreadable(f) ==
    \/ f.kind # "json"
    \/ \E i \in 1..Len(f.data) : ~(RequiredFields \subseteq DOMAIN f.data[i])

\* C12: a store just constructed holds the empty collection when its file
\* is missing or unreadable, and otherwise every record of the file, in
\* order; it never holds a proper prefix of the file.
C12_StartupOnBadData ==
    nextId = 0 =>
        /\ Unreadable(file) => items = <<>>
        /\ items = <<>> \/ (file.kind = "json" /\ JsonOfItems(items) = file.data)

\* a store constructed on a file whose second object lacks a field
C12_Witness ==
    nextId = 0 /\ file = JsonFile(<<GoodObject, PartialObject>>) /\ items = <<>>

\* C13: every stored record has an embedding of the store's dimension.
C13_EmbeddingsHaveStoreDimension ==
    \A i \in 1..Len(items) : Len(items[i].embedding) = Dim
\* C18: no thread that is outside a call holds the lock, and under fair
\* scheduling every call waiting for the lock comes to its end, whatever
\* calls failed before it.
C18_LockReleased ==
    /\ [](\A t \in Threads : AtRest(t) => lock # t)
    /\ \A t \in Threads : (pc[t] \in {"add_wait", "search_wait"}) ~> AtRest(t)

\* a call has taken the lock after another thread's add_note ended with
\* the exception of a failed write
C18_Witness ==
    \E t, u \in Threads :
        /\ pc[t] = "raised" /\ ret[t].exc = "OSError"
        /\ pc[u] \in {"add_appended", "search_locked"} /\ lock = u

\* C20: while no rewrite of the file is going on, the file loads to a
\* collection that holds the record of every add_note call that returned
\* a Note.
C20_PersistedRecordsStay ==
    \A t \in Threads :
        (pc[t] = "returned" /\ ret[t].kind = "note" /\ \A u \in Threads : ~Rewriting(u)) =>
            \E i \in 1..Len(Storage_load(file)) : Storage_load(file)[i].id = ret[t].note.id

\* C19: every value count() returns is at least the number of records
\* loaded at startup plus the add_note calls that have returned by then, and
\* at most that number plus the add_note calls that have started by then;
\* this holds whether or not a write of the file has failed.
C19_CountBounds ==
    [][\A t \in Threads :
          Count(t) =>
              /\ ret'[t].n >= hist.loaded + hist.returned
              /\ ret'[t].n <= hist.loaded + hist.started]_vars

\* count() has returned a value that includes the record of the only add_note
\* call so far, which has appended and not yet rewritten the file
C19_Witness ==
    \E t, u \in Threads :
        /\ pc[t] = "returned" /\ ret[t].kind = "count"
        /\ pc[u] = "add_appended"
        /\ hist.started = 1 /\ hist.returned = 0
        /\ ret[t].n = hist.loaded + 1
        /\ Len(Storage_load(file)) = hist.loaded

\* the last request was a call of add_note or search_notes
ToCore(r) == r.req.endpoint \in {"add_note", "search_notes"}

\* C14: get_embedding returns None for a text that is empty once stripped,
\* and a POST /add_note that is let in with such a note is answered with 500
\* without a call of storage.add_note: the collection (so count()) and the
\* file stay as they were.
C14_BlankNoteIsRefused ==
    [][/\ \A text \in Notes \cup Qs : strip(text) = <<>> => Embedding[text] = None
       /\ (/\ resp'.req.endpoint = "add_note"
           /\ Admission(resp'.req) = 0
           /\ strip(resp'.req.text) = <<>>)
          => /\ resp'.status = 500
             /\ "add" \notin resp'.called
             /\ items' = items /\ Len(items') = Len(items)
             /\ file' = file]_vars

\* a note of two spaces, sent with the good header to a store that holds a
\* record, has been answered with 500
C14_Witness ==
    /\ resp.req.endpoint = "add_note"
    /\ resp.req.authorization = GoodHeader
    /\ resp.req.patient_id = "P1"
    /\ resp.req.text = Blank
    /\ resp.status = 500
    /\ resp.called = {"encode"}
    /\ Len(items) >= 1
    /\ file.kind = "json" /\ Len(file.data) = Len(items)

\* the header is absent, does not start with "Bearer ", or carries another
\* token than the configured one
BadToken(h) ==
    \/ ~h.present
    \/ ~StartsWithBearer(h.value)
    \/ strip(AfterFirstSpace(h.value)) # <<STATIC_TOKEN>>

\* C15: a request to /add_note or /search_notes whose Authorization header is
\* absent, malformed or carries a wrong token is answered with 401, and
\* neither get_embedding nor storage.add_note nor storage.search is called
\* for it: the store stays as it was.
C15_AuthGatesCore ==
    [][(ToCore(resp') /\ BadToken(resp'.req.authorization))
          => /\ resp'.status = 401
             /\ resp'.called = {}
             /\ items' = items
             /\ file' = file]_vars

\* the part of C15 that the handlers keep: such a request is turned away
\* (with 401 or 422) before any call into the core
RejectedBeforeCore ==
    [][(ToCore(resp') /\ BadToken(resp'.req.authorization))
          => /\ resp'.status \in {401, 422}
             /\ resp'.called = {}
             /\ items' = items
             /\ file' = file]_vars

\* the notes of the records of a collection
NotesOf(its) == { its[i].note : i \in 1..Len(its) }

\* C17: when the store holds exactly the notes "chest pain", "headache" and
\* "chest tightness", in any order of adding, the answer to the query
\* "chest" lists the three notes with "headache" last.
C17_ChestRanking ==
    (/\ resp.req.endpoint = "search_notes"
     /\ resp.req.text = Chest
     /\ resp.status = 200
     /\ Len(items) = 3
     /\ NotesOf(items) = {ChestPain, Headache, ChestTightness})
    => /\ Len(resp.body) = 3
       /\ { resp.body[1].note, resp.body[2].note } = {ChestPain, ChestTightness}
       /\ resp.body[3].note = Headache

\* "headache" was added first and "chest pain" last, and the query "chest"
\* has been answered
C17_Witness ==
    /\ resp.req.endpoint = "search_notes"
    /\ resp.req.text = Chest
    /\ resp.status = 200
    /\ Len(resp.body) = 3
    /\ Len(items) = 3
    /\ items[1].note = Headache /\ items[2].note = ChestTightness
    /\ items[3].note = ChestPain
====
